---- MODULE Spec2Model ----
(***************************************************************************)
(* snowmin: declarative management of Snowflake objects.                   *)
(*                                                                         *)
(* The model covers the reconciliation engine: the resource model with its *)
(* per-kind SQL rendering, the process-wide ResourceRegistry, the          *)
(* Introspector that rebuilds resources from the live account, the planner *)
(* (Runner.plan) and the executor (Runner.apply), together with the        *)
(* ConnectionManager session they share.                                   *)
(*                                                                         *)
(* Python values: Optional[T] is modelled as a tuple, None being <<>> and  *)
(* a value v being <<v>>; a dict is modelled as the sequence of its values *)
(* in insertion order (the key of a value is its identifier); SQL text is  *)
(* a string built by concatenation exactly as the f-strings build it.      *)
(***************************************************************************)
EXTENDS Integers, Sequences, FiniteSets, TLC

(***************************************************************************)
(* Bounds of the model.                                                    *)
(***************************************************************************)
\* how many resource declarations the stack file evaluates
MaxDecl == 3
\* how many times Runner.plan() is called in one process
MaxPlans == 2
\* how many resource declarations one stack file of a command run holds
MaxStack == 2
\* how many register() calls are followed between two clear() calls
MaxRegs == 3
\* calls of ConnectionManager methods in one behaviour
MaxCalls == 4
\* pipes selected for one drop-recreate command
MaxPipes == 2

(***************************************************************************)
(* Python helpers.                                                         *)
(***************************************************************************)
None == <<>>
Some(v) == <<v>>
Val(o) == o[1]

\* truthiness of an Optional[str]: None and "" are falsy
TruthyStr(o) == o /= None /\ Val(o) /= ""

\* str.upper() on the names and literals the model uses; every other string
\* of the model is already upper case
Upper(s) ==
    CASE s = "wh1" -> "WH1"
      [] s = "t1" -> "T1"
      [] s = "db" -> "DB"
      [] s = "s" -> "S"
      [] s = "x-small" -> "X-SMALL"
      [] s = "usage" -> "USAGE"
      [] s = "warehouse" -> "WAREHOUSE"
      [] s = "role" -> "ROLE"
      [] s = "user" -> "USER"
      [] s = "database" -> "DATABASE"
      [] s = "schema" -> "SCHEMA"
      [] s = "table" -> "TABLE"
      [] s = "grant" -> "GRANT"
      [] OTHER -> s

\* f"{x}" of an Optional[str] / Optional[int]
StrOfStr(o) == IF o = None THEN "None" ELSE Val(o)
StrOfInt(o) == IF o = None THEN "None" ELSE ToString(Val(o))
\* str(x).upper() of an Optional[bool]
UpperStrOfBool(o) == IF o = None THEN "NONE" ELSE IF Val(o) THEN "TRUE" ELSE "FALSE"

RECURSIVE Join(_, _)
\* sep.join(strs)
Join(strs, sep) ==
    IF Len(strs) = 0 THEN ""
    ELSE IF Len(strs) = 1 THEN strs[1]
    ELSE strs[1] \o sep \o Join(Tail(strs), sep)

RECURSIVE Concat(_)
\* the effect of repeated  sql += part
Concat(parts) == IF Len(parts) = 0 THEN "" ELSE parts[1] \o Concat(Tail(parts))

\* [f(x) for x in s]
Map(s, F(_)) == [i \in 1..Len(s) |-> F(s[i])]

Range(s) == {s[i] : i \in 1..Len(s)}

(***************************************************************************)
(* Resource model: constructors (pydantic field defaults and validators).  *)
(***************************************************************************)
\* Warehouse fields; validate_size upper-cases a truthy warehouse_size
Warehouse(name, warehouse_size, auto_suspend, auto_resume, scaling_policy, comment) ==
    [kind |-> "warehouse", name |-> name,
     warehouse_size |-> IF TruthyStr(warehouse_size)
                        THEN Some(Upper(Val(warehouse_size))) ELSE warehouse_size,
     auto_suspend |-> auto_suspend, auto_resume |-> auto_resume,
     scaling_policy |-> scaling_policy, comment |-> comment]

\* Warehouse(name=..., warehouse_size=...) with the other fields defaulted
DefaultAutoSuspend == 600
WarehouseDefaults(name, warehouse_size) ==
    Warehouse(name, warehouse_size, Some(DefaultAutoSuspend), Some(TRUE),
              Some("STANDARD"), None)

Role(name, comment) == [kind |-> "role", name |-> name, comment |-> comment]

User(name, login_name, disabled, default_role, comment) ==
    [kind |-> "user", name |-> name, login_name |-> login_name,
     display_name |-> None, email |-> None, disabled |-> disabled,
     default_role |-> default_role, default_warehouse |-> None,
     comment |-> comment]

\* Grant inherits the required field name of Resource; no method reads it
GrantNamed(name, privilege, on_type, on_name, to_role) ==
    [kind |-> "grant", name |-> name, privilege |-> privilege,
     on_type |-> on_type, on_name |-> on_name, to_role |-> to_role]

Grant(privilege, on_type, on_name, to_role) ==
    GrantNamed("GRANT", privilege, on_type, on_name, to_role)

Database(name, comment, data_retention_time_in_days) ==
    [kind |-> "database", name |-> name, comment |-> comment,
     data_retention_time_in_days |-> data_retention_time_in_days]

Schema(database, name, comment, data_retention_time_in_days, managed_access) ==
    [kind |-> "schema", name |-> name, comment |-> comment,
     data_retention_time_in_days |-> data_retention_time_in_days,
     managed_access |-> managed_access, database |-> database]

Column(name, type, nullable, comment) ==
    [name |-> name, type |-> type, nullable |-> nullable,
     primary_key |-> FALSE, comment |-> comment]

Table(database, schema_name, name, columns, comment) ==
    [kind |-> "table", name |-> name, database |-> database,
     schema_name |-> schema_name, columns |-> columns, comment |-> comment]

(***************************************************************************)
(* Resource model: identifier.                                             *)
(***************************************************************************)
\* variant of Resource.identifier: the name is taken as written
ResourceIdentifierAsWritten(r) == r.kind \o "." \o r.name

\* Resource.identifier: f"{_snowflake_type}.{name.upper()}"
Resource_identifier(r) == r.kind \o "." \o Upper(r.name)

Schema_identifier(r) == r.kind \o "." \o Upper(r.database) \o "." \o Upper(r.name)

Table_identifier(r) ==
    r.kind \o "." \o Upper(r.database) \o "." \o Upper(r.schema_name)
           \o "." \o Upper(r.name)

\* variant of Grant.identifier: the grantee role is left out
GrantIdentifierWithoutRole(r) ==
    "GRANT." \o Upper(r.privilege) \o "." \o Upper(r.on_type) \o "."
             \o Upper(r.on_name)

\* the whole f-string is upper-cased
Grant_identifier(r) ==
    "GRANT." \o Upper(r.privilege) \o "." \o Upper(r.on_type) \o "."
             \o Upper(r.on_name) \o ".TO." \o Upper(r.to_role)

\* the identifier property, dispatched on the class
Identifier(r) ==
    CASE r.kind = "schema" -> Schema_identifier(r)
      [] r.kind = "table" -> Table_identifier(r)
      [] r.kind = "grant" -> Grant_identifier(r)
      [] OTHER -> Resource_identifier(r)

(***************************************************************************)
(* Resource model: get_create_sql.                                         *)
(***************************************************************************)
\* variant of Warehouse.get_create_sql: AUTO_RESUME is rendered as Python
\* prints a bool
WarehouseCreatePythonBool(r) ==
    Concat(<<"CREATE WAREHOUSE " \o r.name,
             IF TruthyStr(r.warehouse_size)
             THEN " WAREHOUSE_SIZE = '" \o Val(r.warehouse_size) \o "'" ELSE "",
             IF r.auto_suspend /= None
             THEN " AUTO_SUSPEND = " \o StrOfInt(r.auto_suspend) ELSE "",
             IF r.auto_resume /= None
             THEN " AUTO_RESUME = " \o (IF Val(r.auto_resume) THEN "True" ELSE "False")
             ELSE "",
             IF TruthyStr(r.scaling_policy)
             THEN " SCALING_POLICY = '" \o Val(r.scaling_policy) \o "'" ELSE "",
             IF TruthyStr(r.comment)
             THEN " COMMENT = '" \o Val(r.comment) \o "'" ELSE "">>)

Warehouse_get_create_sql(r) ==
    Concat(<<"CREATE WAREHOUSE " \o r.name,
             IF TruthyStr(r.warehouse_size)
             THEN " WAREHOUSE_SIZE = '" \o Val(r.warehouse_size) \o "'" ELSE "",
             IF r.auto_suspend /= None
             THEN " AUTO_SUSPEND = " \o StrOfInt(r.auto_suspend) ELSE "",
             IF r.auto_resume /= None
             THEN " AUTO_RESUME = " \o UpperStrOfBool(r.auto_resume) ELSE "",
             IF TruthyStr(r.scaling_policy)
             THEN " SCALING_POLICY = '" \o Val(r.scaling_policy) \o "'" ELSE "",
             IF TruthyStr(r.comment)
             THEN " COMMENT = '" \o Val(r.comment) \o "'" ELSE "">>)

Role_get_create_sql(r) ==
    Concat(<<"CREATE ROLE " \o r.name,
             IF TruthyStr(r.comment)
             THEN " COMMENT = '" \o Val(r.comment) \o "'" ELSE "">>)

User_get_create_sql(r) ==
    Concat(<<"CREATE USER " \o r.name,
             IF TruthyStr(r.login_name)
             THEN " LOGIN_NAME = '" \o Val(r.login_name) \o "'" ELSE "",
             IF TruthyStr(r.display_name)
             THEN " DISPLAY_NAME = '" \o Val(r.display_name) \o "'" ELSE "",
             IF TruthyStr(r.email)
             THEN " EMAIL = '" \o Val(r.email) \o "'" ELSE "",
             IF r.disabled THEN " DISABLED = TRUE" ELSE "",
             IF TruthyStr(r.default_role)
             THEN " DEFAULT_ROLE = '" \o Val(r.default_role) \o "'" ELSE "",
             IF TruthyStr(r.default_warehouse)
             THEN " DEFAULT_WAREHOUSE = '" \o Val(r.default_warehouse) \o "'" ELSE "",
             IF TruthyStr(r.comment)
             THEN " COMMENT = '" \o Val(r.comment) \o "'" ELSE "">>)

Grant_get_create_sql(r) ==
    "GRANT " \o r.privilege \o " ON " \o r.on_type \o " " \o r.on_name
             \o " TO ROLE " \o r.to_role

Database_get_create_sql(r) ==
    Concat(<<"CREATE DATABASE " \o r.name,
             IF r.data_retention_time_in_days /= None
             THEN " DATA_RETENTION_TIME_IN_DAYS = "
                  \o StrOfInt(r.data_retention_time_in_days) ELSE "",
             IF TruthyStr(r.comment)
             THEN " COMMENT = '" \o Val(r.comment) \o "'" ELSE "">>)

Schema_get_create_sql(r) ==
    Concat(<<"CREATE SCHEMA " \o r.database \o "." \o r.name,
             IF r.managed_access THEN " WITH MANAGED ACCESS" ELSE "",
             IF r.data_retention_time_in_days /= None
             THEN " DATA_RETENTION_TIME_IN_DAYS = "
                  \o StrOfInt(r.data_retention_time_in_days) ELSE "",
             IF TruthyStr(r.comment)
             THEN " COMMENT = '" \o Val(r.comment) \o "'" ELSE "">>)

\* one column definition line of CREATE TABLE
Table_create_column_line(col) ==
    Concat(<<col.name \o " " \o col.type,
             IF ~col.nullable THEN " NOT NULL" ELSE "",
             IF TruthyStr(col.comment)
             THEN " COMMENT '" \o Val(col.comment) \o "'" ELSE "">>)

Table_get_create_sql(r) ==
    "CREATE TABLE " \o r.database \o "." \o r.schema_name \o "." \o r.name
        \o " (" \o Join(Map(r.columns, Table_create_column_line), ", ") \o ")"

get_create_sql(r) ==
    CASE r.kind = "warehouse" -> Warehouse_get_create_sql(r)
      [] r.kind = "role" -> Role_get_create_sql(r)
      [] r.kind = "user" -> User_get_create_sql(r)
      [] r.kind = "grant" -> Grant_get_create_sql(r)
      [] r.kind = "database" -> Database_get_create_sql(r)
      [] r.kind = "schema" -> Schema_get_create_sql(r)
      [] r.kind = "table" -> Table_get_create_sql(r)

(***************************************************************************)
(* Resource model: get_alter_sql.                                          *)
(***************************************************************************)
\* changes.append(s) when cond holds
Change(cond, s) == IF cond THEN <<s>> ELSE <<>>

\* variant of Warehouse_changes: the COMMENT clause is emitted whenever a
\* comment is set, without comparing it with current_state
WarehouseChangesAlwaysComment(self, current_state) ==
    Change(self.warehouse_size /= current_state.warehouse_size
             /\ TruthyStr(self.warehouse_size),
           "WAREHOUSE_SIZE = '" \o StrOfStr(self.warehouse_size) \o "'")
    \o Change(self.auto_suspend /= current_state.auto_suspend,
              "AUTO_SUSPEND = " \o StrOfInt(self.auto_suspend))
    \o Change(self.auto_resume /= current_state.auto_resume,
              "AUTO_RESUME = " \o UpperStrOfBool(self.auto_resume))
    \o Change(self.scaling_policy /= current_state.scaling_policy,
              "SCALING_POLICY = '" \o StrOfStr(self.scaling_policy) \o "'")
    \o Change(self.comment /= None,
              "COMMENT = '" \o StrOfStr(self.comment) \o "'")

Warehouse_changes(self, current_state) ==
    Change(self.warehouse_size /= current_state.warehouse_size
             /\ TruthyStr(self.warehouse_size),
           "WAREHOUSE_SIZE = '" \o StrOfStr(self.warehouse_size) \o "'")
    \o Change(self.auto_suspend /= current_state.auto_suspend,
              "AUTO_SUSPEND = " \o StrOfInt(self.auto_suspend))
    \o Change(self.auto_resume /= current_state.auto_resume,
              "AUTO_RESUME = " \o UpperStrOfBool(self.auto_resume))
    \o Change(self.scaling_policy /= current_state.scaling_policy,
              "SCALING_POLICY = '" \o StrOfStr(self.scaling_policy) \o "'")
    \o Change(self.comment /= current_state.comment,
              "COMMENT = '" \o StrOfStr(self.comment) \o "'")

\* variant of Warehouse.get_alter_sql: the clauses are joined by a space
WarehouseAlterSpaceJoined(self, current_state) ==
    LET changes == Warehouse_changes(self, current_state)
    IN  IF changes = <<>> THEN ""
        ELSE "ALTER WAREHOUSE " \o self.name \o " SET " \o Join(changes, " ")

Warehouse_get_alter_sql(self, current_state) ==
    LET changes == Warehouse_changes(self, current_state)
    IN  IF changes = <<>> THEN ""
        ELSE "ALTER WAREHOUSE " \o self.name \o " SET " \o Join(changes, ", ")

Role_get_alter_sql(self, current_state) ==
    IF self.comment /= current_state.comment
    THEN "ALTER ROLE " \o self.name \o " SET COMMENT = '"
         \o StrOfStr(self.comment) \o "'"
    ELSE ""

User_get_alter_sql(self, current_state) ==
    LET changes == Change(self.disabled /= current_state.disabled,
                          "DISABLED = " \o (IF self.disabled THEN "TRUE" ELSE "FALSE"))
    IN  IF changes = <<>> THEN ""
        ELSE "ALTER USER " \o self.name \o " SET " \o Join(changes, ", ")

\* the identifier holds every field, so a grant is never altered
Grant_get_alter_sql(self, current_state) == ""

Database_changes(self, current_state) ==
    Change(self.data_retention_time_in_days
             /= current_state.data_retention_time_in_days,
           "DATA_RETENTION_TIME_IN_DAYS = "
             \o StrOfInt(self.data_retention_time_in_days))
    \o Change(self.comment /= current_state.comment,
              "COMMENT = '" \o StrOfStr(self.comment) \o "'")

Database_get_alter_sql(self, current_state) ==
    LET changes == Database_changes(self, current_state)
    IN  IF changes = <<>> THEN ""
        ELSE "ALTER DATABASE " \o self.name \o " SET " \o Join(changes, ", ")

Schema_get_alter_sql(self, current_state) ==
    LET changes == Database_changes(self, current_state)
    IN  IF changes = <<>> THEN ""
        ELSE "ALTER SCHEMA " \o self.database \o "." \o self.name \o " SET "
             \o Join(changes, ", ")

RECURSIVE ColumnsByName(_)
\* {c.name: c for c in columns}: a later column of the same name replaces the
\* value and keeps the position of the first
ColumnsByName(columns) ==
    IF Len(columns) = 0 THEN <<>>
    ELSE LET n == Len(columns)
             init == ColumnsByName(SubSeq(columns, 1, n - 1))
             c == columns[n]
         IN  IF \E i \in 1..Len(init) : init[i].name = c.name
             THEN [i \in 1..Len(init) |->
                      IF init[i].name = c.name THEN c ELSE init[i]]
             ELSE Append(init, c)

\* one ADD COLUMN clause of ALTER TABLE (no comment, unlike CREATE TABLE)
Table_add_column_clause(col) ==
    "ADD COLUMN " \o col.name \o " " \o col.type
        \o (IF ~col.nullable THEN " NOT NULL" ELSE "")

\* variant of the test  name not in current_cols: a column that differs
\* from the current one of its name counts as missing too
TableColumnMissingOrChanged(current_state, col) ==
    \A i \in 1..Len(current_state.columns) : current_state.columns[i] /= col

Table_missing_column(current_state, col) ==
    \A i \in 1..Len(current_state.columns) :
        current_state.columns[i].name /= col.name

Table_get_alter_sql(self, current_state) ==
    LET Missing(col) == Table_missing_column(current_state, col)
        sql_stmts == Map(SelectSeq(ColumnsByName(self.columns), Missing),
                         Table_add_column_clause)
    IN  IF sql_stmts /= <<>>
        THEN "ALTER TABLE " \o self.database \o "." \o self.schema_name \o "."
             \o self.name \o " " \o Join(sql_stmts, ", ")
        ELSE ""

get_alter_sql(self, current_state) ==
    CASE self.kind = "warehouse" -> Warehouse_get_alter_sql(self, current_state)
      [] self.kind = "role" -> Role_get_alter_sql(self, current_state)
      [] self.kind = "user" -> User_get_alter_sql(self, current_state)
      [] self.kind = "grant" -> Grant_get_alter_sql(self, current_state)
      [] self.kind = "database" -> Database_get_alter_sql(self, current_state)
      [] self.kind = "schema" -> Schema_get_alter_sql(self, current_state)
      [] self.kind = "table" -> Table_get_alter_sql(self, current_state)

(***************************************************************************)
(* Resource model: get_drop_sql.                                           *)
(***************************************************************************)
\* the base class names the object by its bare name, also for Table and Schema
Resource_get_drop_sql(r) == "DROP " \o Upper(r.kind) \o " IF EXISTS " \o r.name

Grant_get_drop_sql(r) ==
    "REVOKE " \o r.privilege \o " ON " \o r.on_type \o " " \o r.on_name
              \o " FROM ROLE " \o r.to_role

get_drop_sql(r) ==
    IF r.kind = "grant" THEN Grant_get_drop_sql(r) ELSE Resource_get_drop_sql(r)

(***************************************************************************)
(* Python dict keyed by identifier, and the ResourceRegistry.               *)
(***************************************************************************)
Identifiers(d) == {Identifier(d[i]) : i \in 1..Len(d)}

\* variant of d[r.identifier] = r : the key is deleted first, so the new
\* value goes to the end
DictSetDeleteThenInsert(d, r) ==
    Append(SelectSeq(d, LAMBDA x : Identifier(x) /= Identifier(r)), r)

\* d[r.identifier] = r : an existing key keeps its position
DictSet(d, r) ==
    IF Identifier(r) \in Identifiers(d)
    THEN [i \in 1..Len(d) |->
             IF Identifier(d[i]) = Identifier(r) THEN r ELSE d[i]]
    ELSE Append(d, r)

\* d[identifier]
DictGet(d, identifier) ==
    d[CHOOSE i \in 1..Len(d) : Identifier(d[i]) = identifier]

\* variant of register: an overwritten key moves to the end of the dict
RegisterMovesToEnd(resources, resource) ==
    Append(SelectSeq(resources,
                     LAMBDA x : Identifier(x) /= Identifier(resource)),
           resource)

\* variant of register: a registered identifier keeps its first resource
RegisterKeepsFirst(resources, resource) ==
    IF Identifier(resource) \in Identifiers(resources) THEN resources
    ELSE Append(resources, resource)

\* ResourceRegistry.register
ResourceRegistry_register(resources, resource) == DictSet(resources, resource)

\* ResourceRegistry.get_all: list(cls._resources.values())
ResourceRegistry_get_all(resources) == resources

\* Resource.__init__(register=..., **data): the effect on the registry
Resource_init(resources, resource, register) ==
    IF register THEN ResourceRegistry_register(resources, resource)
    ELSE resources

RECURSIVE InitAll(_, _, _)
\* constructing the resources of rs one after the other
InitAll(resources, rs, register) ==
    IF Len(rs) = 0 THEN resources
    ELSE InitAll(Resource_init(resources, rs[1], register), Tail(rs), register)

(***************************************************************************)
(* The live Snowflake account, as the queries of the Introspector see it.  *)
(***************************************************************************)
\* one row of SHOW WAREHOUSES (the columns fetch_warehouses reads)
WarehouseRow(name, size, auto_suspend, auto_resume, scaling_policy, comment) ==
    [name |-> name, size |-> size, auto_suspend |-> auto_suspend,
     auto_resume |-> auto_resume, scaling_policy |-> scaling_policy,
     comment |-> comment]

\* one row of DESC TABLE
DescRow(name, type, null, comment) ==
    [name |-> name, type |-> type, null |-> null, comment |-> comment]

\* one row of SHOW TABLES IN ACCOUNT, with the DESC TABLE rows of the table
TableRow(database_name, schema_name, name, comment, columns) ==
    [database_name |-> database_name, schema_name |-> schema_name,
     name |-> name, comment |-> comment, columns |-> columns]

\* f"{db_name}.{schema_name}.{table_name}"
full_name(row) == row.database_name \o "." \o row.schema_name \o "." \o row.name

(***************************************************************************)
(* ConnectionManager.                                                      *)
(***************************************************************************)
\* get_connection(None) inside execute: an open session is returned, a
\* missing one raises ValueError
HasConnection(connection) == connection /= None

\* ConnectionManager.fetch_all(query) returns rows: there is a session and
\* cursor.execute does not raise
QuerySucceeds(connection, fault) == HasConnection(connection) /\ ~fault

(***************************************************************************)
(* Introspector.                                                           *)
(***************************************************************************)
\* the Warehouse that fetch_warehouses builds from a row
WarehouseFromRow(row) ==
    Warehouse(row.name, Some(row.size), row.auto_suspend,
              Some(row.auto_resume = "true"), Some(row.scaling_policy),
              Some(row.comment))

\* fetch_warehouses constructs Warehouse(...) without register=False, so
\* Resource.__init__ takes its default register=True
fetch_warehouses_register == TRUE

\* fetch_tables constructs Table(..., register=False)
fetch_tables_register == FALSE

ColumnFromDescRow(c_row) ==
    Column(c_row.name, c_row.type, c_row.null = "Y", c_row.comment)

TableFromRow(row) ==
    Table(row.database_name, row.schema_name, row.name,
          Map(row.columns, ColumnFromDescRow), row.comment)

\* Introspector.fetch_warehouses: the returned list
Introspector_fetch_warehouses(connection, faults, live) ==
    IF QuerySucceeds(connection, faults.show_warehouses)
    THEN Map(live.warehouses, WarehouseFromRow)
    ELSE <<>>

\* variant of fetch_tables: the first DESC TABLE that raises ends the loop
FetchTablesStopsAtFailure(connection, faults, live) ==
    IF QuerySucceeds(connection, faults.show_tables)
    THEN LET failing == {i \in 1..Len(live.tables) :
                            full_name(live.tables[i]) \in faults.desc}
             n == IF failing = {} THEN Len(live.tables)
                  ELSE (CHOOSE i \in failing : \A j \in failing : i <= j) - 1
         IN  Map(SubSeq(live.tables, 1, n), TableFromRow)
    ELSE <<>>

\* Introspector.fetch_tables: the returned list; a table whose DESC TABLE
\* raises is skipped
Introspector_fetch_tables(connection, faults, live) ==
    IF QuerySucceeds(connection, faults.show_tables)
    THEN Map(SelectSeq(live.tables,
                       LAMBDA row : full_name(row) \notin faults.desc),
             TableFromRow)
    ELSE <<>>

RECURSIVE DictFromList(_, _)
\* for r in rs: d[r.identifier] = r
DictFromList(d, rs) ==
    IF Len(rs) = 0 THEN d ELSE DictFromList(DictSet(d, rs[1]), Tail(rs))

\* variant of fetch_all: the objects of every kind enter the snapshot
FetchAllKinds(connection, faults, live) ==
    DictFromList(<<>>,
        Introspector_fetch_warehouses(connection, faults, live)
        \o Introspector_fetch_tables(connection, faults, live)
        \o live.others)

\* variant of fetch_all: a listing query that raises aborts the snapshot
FetchAllAbortsOnFailure(connection, faults, live) ==
    IF /\ QuerySucceeds(connection, faults.show_warehouses)
       /\ QuerySucceeds(connection, faults.show_tables)
    THEN DictFromList(<<>>,
            Introspector_fetch_warehouses(connection, faults, live)
            \o Introspector_fetch_tables(connection, faults, live))
    ELSE <<>>

\* Introspector.fetch_all: the returned {identifier: Resource}
Introspector_fetch_all(connection, faults, live) ==
    DictFromList(<<>>,
        Introspector_fetch_warehouses(connection, faults, live)
        \o Introspector_fetch_tables(connection, faults, live))

\* variant of the queries of fetch_all: the session is moved to the
\* database of a table before the table is described
IntrospectorQueriesUseDatabase(connection, faults, live) ==
    IF ~HasConnection(connection) THEN <<>>
    ELSE <<"SHOW WAREHOUSES", "SHOW TABLES IN ACCOUNT">>
         \o (IF faults.show_tables THEN <<>>
             ELSE [i \in 1..(2 * Len(live.tables)) |->
                     IF i % 2 = 1
                     THEN "USE DATABASE "
                          \o live.tables[(i + 1) \div 2].database_name
                     ELSE "DESC TABLE " \o full_name(live.tables[i \div 2])])

\* Introspector.fetch_all: the queries cursor.execute is handed, in order;
\* without a session get_connection raises before any query is sent, and
\* no table is described when SHOW TABLES IN ACCOUNT raises
Introspector_queries(connection, faults, live) ==
    IF ~HasConnection(connection) THEN <<>>
    ELSE <<"SHOW WAREHOUSES", "SHOW TABLES IN ACCOUNT">>
         \o (IF faults.show_tables THEN <<>>
             ELSE Map(live.tables,
                      LAMBDA row : "DESC TABLE " \o full_name(row)))

\* Introspector.fetch_all: what the constructors it runs do to the registry
Introspector_fetch_all_registry(resources, connection, faults, live) ==
    InitAll(InitAll(resources,
                    Introspector_fetch_warehouses(connection, faults, live),
                    fetch_warehouses_register),
            Introspector_fetch_tables(connection, faults, live),
            fetch_tables_register)

(***************************************************************************)
(* Runner.plan: the classification loops.                                  *)
(***************************************************************************)
\* one planned statement; op and identifier record the branch that appended
\* it and for which identifier, sql is the element of plan_sql
Entry(op, r, sql) == [op |-> op, identifier |-> Identifier(r), res |-> r, sql |-> sql]

\* variant of the desired loop: no look-up in current_state
PlanDesiredAlwaysCreates(resource, current_state) ==
    <<Entry("create", resource, get_create_sql(resource))>>

\* the body of  for resource in desired_state
PlanDesired(resource, current_state) ==
    IF Identifier(resource) \notin Identifiers(current_state)
    THEN <<Entry("create", resource, get_create_sql(resource))>>
    ELSE LET current == DictGet(current_state, Identifier(resource))
             alter_sql == get_alter_sql(resource, current)
         IN  IF alter_sql /= ""
             THEN <<Entry("alter", resource, alter_sql)>>
             ELSE <<>>

\* variant of the current loop: no test against desired_identifiers
PlanCurrentDropsAll(resource, desired_state) ==
    <<Entry("drop", resource, get_drop_sql(resource))>>

\* the body of  for identifier, resource in current_state.items()
PlanCurrent(resource, desired_state) ==
    IF Identifier(resource) \notin Identifiers(desired_state)
    THEN <<Entry("drop", resource, get_drop_sql(resource))>>
    ELSE <<>>

RECURSIVE CreatesAndAlters(_, _)
CreatesAndAlters(desired_state, current_state) ==
    IF Len(desired_state) = 0 THEN <<>>
    ELSE PlanDesired(desired_state[1], current_state)
         \o CreatesAndAlters(Tail(desired_state), current_state)

RECURSIVE Drops(_, _)
Drops(current_state, desired_state) ==
    IF Len(current_state) = 0 THEN <<>>
    ELSE PlanCurrent(current_state[1], desired_state)
         \o Drops(Tail(current_state), desired_state)

\* variant of plan: the destroy loop runs first
PlanDropsFirst(desired_state, current_state) ==
    Drops(current_state, desired_state)
    \o CreatesAndAlters(desired_state, current_state)

\* plan_sql as Runner.plan builds it from desired_state and current_state
PlanEntries(desired_state, current_state) ==
    CreatesAndAlters(desired_state, current_state)
    \o Drops(current_state, desired_state)

\* variant of plan: get_all() is read before fetch_all() runs
DesiredReadBeforeFetch(before, after) == ResourceRegistry_get_all(before)

\* Runner.plan calls fetch_all() first and reads the registry afterwards:
\* before and after are the registry before and after fetch_all()
DesiredState(before, after) == ResourceRegistry_get_all(after)

\* the list of SQL strings that Runner.plan returns
PlanSql(entries) == [i \in 1..Len(entries) |-> entries[i].sql]

(***************************************************************************)
(* The effect of an executed statement on the live account.  A planned     *)
(* statement is interpreted through the resource it was rendered from.     *)
(***************************************************************************)
\* Snowflake stores an unquoted object name in upper case
WarehouseExists(live, name) ==
    \E i \in 1..Len(live.warehouses) : live.warehouses[i].name = Upper(name)

TableExists(live, database, schema, name) ==
    \E i \in 1..Len(live.tables) :
        /\ live.tables[i].database_name = Upper(database)
        /\ live.tables[i].schema_name = Upper(schema)
        /\ live.tables[i].name = Upper(name)

OtherExists(live, r) == Identifier(r) \in Identifiers(live.others)

\* the server rejects CREATE of an object that exists and ALTER of one that
\* does not; DROP ... IF EXISTS and GRANT are accepted either way
ServerAccepts(live, e) ==
    CASE e.op = "create" /\ e.res.kind = "warehouse" ->
            ~WarehouseExists(live, e.res.name)
      [] e.op = "create" /\ e.res.kind = "table" ->
            ~TableExists(live, e.res.database, e.res.schema_name, e.res.name)
      [] e.op = "create" /\ e.res.kind = "grant" -> TRUE
      [] e.op = "create" -> ~OtherExists(live, e.res)
      [] e.op = "alter" /\ e.res.kind = "warehouse" ->
            WarehouseExists(live, e.res.name)
      [] e.op = "alter" /\ e.res.kind = "table" ->
            TableExists(live, e.res.database, e.res.schema_name, e.res.name)
      [] OTHER -> TRUE

\* the SHOW WAREHOUSES row of a warehouse created or altered to r, old being
\* the row before (the account defaults for a new warehouse)
RowOfWarehouse(r, old) ==
    WarehouseRow(Upper(r.name),
        IF TruthyStr(r.warehouse_size) THEN Val(r.warehouse_size) ELSE old.size,
        IF r.auto_suspend /= None THEN r.auto_suspend ELSE old.auto_suspend,
        IF r.auto_resume /= None
        THEN (IF Val(r.auto_resume) THEN "true" ELSE "false")
        ELSE old.auto_resume,
        IF TruthyStr(r.scaling_policy) THEN Val(r.scaling_policy)
        ELSE old.scaling_policy,
        IF TruthyStr(r.comment) THEN Val(r.comment) ELSE old.comment)

NewWarehouseRow == WarehouseRow("", "X-SMALL", Some(600), "true", "STANDARD", "")

DescRowOfColumn(col) ==
    DescRow(Upper(col.name), col.type, IF col.nullable THEN "Y" ELSE "N",
            col.comment)

\* the columns of self that ALTER TABLE adds to a table with these rows
AddedColumns(self, columns) ==
    SelectSeq(ColumnsByName(self.columns),
              LAMBDA col : \A i \in 1..Len(columns) : columns[i].name /= col.name)

\* the session's current database and schema resolve an unqualified name
ExecEffect(live, config, e) ==
    CASE e.op = "create" /\ e.res.kind = "warehouse" ->
            [live EXCEPT !.warehouses =
                Append(@, RowOfWarehouse(e.res, NewWarehouseRow))]
      [] e.op = "create" /\ e.res.kind = "table" ->
            [live EXCEPT !.tables =
                Append(@, TableRow(Upper(e.res.database), Upper(e.res.schema_name),
                                   Upper(e.res.name), e.res.comment,
                                   Map(e.res.columns, DescRowOfColumn)))]
      [] e.op = "create" ->
            [live EXCEPT !.others = DictSet(@, e.res)]
      [] e.op = "alter" /\ e.res.kind = "warehouse" ->
            [live EXCEPT !.warehouses =
                [i \in 1..Len(@) |->
                    IF @[i].name = Upper(e.res.name)
                    THEN RowOfWarehouse(e.res, @[i]) ELSE @[i]]]
      [] e.op = "alter" /\ e.res.kind = "table" ->
            [live EXCEPT !.tables =
                [i \in 1..Len(@) |->
                    IF /\ @[i].database_name = Upper(e.res.database)
                       /\ @[i].schema_name = Upper(e.res.schema_name)
                       /\ @[i].name = Upper(e.res.name)
                    THEN [@[i] EXCEPT !.columns =
                            @ \o Map(AddedColumns(e.res, @), DescRowOfColumn)]
                    ELSE @[i]]]
      [] e.op = "drop" /\ e.res.kind = "warehouse" ->
            [live EXCEPT !.warehouses =
                SelectSeq(@, LAMBDA row : row.name /= Upper(e.res.name))]
      [] e.op = "drop" /\ e.res.kind = "table" ->
            [live EXCEPT !.tables =
                SelectSeq(@, LAMBDA row :
                    ~ /\ row.database_name = Upper(config.database)
                      /\ row.schema_name = Upper(config.schema)
                      /\ row.name = Upper(e.res.name))]
      [] OTHER -> live

\* variant of apply: the exception is swallowed and the loop goes on
ContinueAfterFailure(i) == [pc |-> "applying", apply_i |-> i + 1]

\* Runner.apply: conn.execute(sql) raised for statement i; the exception
\* leaves the loop and apply()
AfterFailure(i) == [pc |-> "apply_failed", apply_i |-> i]

(***************************************************************************)
(* Inputs: what a stack file may declare, and the live accounts.            *)
(***************************************************************************)
\* the declarations a stack file is built from (cf. the repository's stack.py)
Declarations ==
    { WarehouseDefaults("WH1", Some("x-small")),
      Warehouse("wh1", Some("LARGE"), Some(60), Some(FALSE), Some("ECONOMY"),
                Some("etl")),
      Role("R1", Some("Managed role")),
      Table("DB", "S", "T1",
            <<Column("ID", "NUMBER", TRUE, None),
              Column("SCORE", "FLOAT", TRUE, None)>>, None),
      Grant("USAGE", "DATABASE", "DB", "R1") }

RowWH1 == WarehouseRow("WH1", "SMALL", Some(600), "true", "STANDARD", "")
RowWH2 == WarehouseRow("WH2", "LARGE", None, "false", "ECONOMY", "legacy")
RowT1 == TableRow("DB", "S", "T1", None,
                  <<DescRow("ID", "NUMBER(38,0)", "N", None)>>)
RowT2 == TableRow("DB", "S", "T2", Some("old"),
                  <<DescRow("ID", "NUMBER(38,0)", "Y", None)>>)
RowRawT1 == TableRow("DB", "RAW", "T1", None,
                     <<DescRow("V", "VARCHAR(16777216)", "Y", None)>>)

\* objects of the kinds the Introspector has no query for
LiveOthers ==
    << Role("R9", None), User("U9", None, FALSE, None, None),
       Database("DB", None, Some(1)), Schema("DB", "RAW", None, None, FALSE),
       Grant("SELECT", "TABLE", "DB.S.T2", "R9") >>

Accounts ==
    { [warehouses |-> <<>>, tables |-> <<>>, others |-> <<>>],
      [warehouses |-> <<RowWH2>>, tables |-> <<>>, others |-> LiveOthers],
      [warehouses |-> <<RowWH1, RowWH2>>, tables |-> <<RowT2, RowT1, RowRawT1>>,
       others |-> LiveOthers] }

\* which queries of the Introspector raise
NoFault == [show_warehouses |-> FALSE, show_tables |-> FALSE, desc |-> {}]
Faults ==
    { NoFault,
      [NoFault EXCEPT !.show_warehouses = TRUE],
      [NoFault EXCEPT !.show_tables = TRUE],
      [NoFault EXCEPT !.desc = {"DB.S.T1"}] }

Configs == { [account |-> "ACCT", database |-> "DB", schema |-> "S"] }

(***************************************************************************)
(* State.                                                                  *)
(***************************************************************************)
VARIABLES
    resources,        \* ResourceRegistry._resources
    connection,       \* ConnectionManager._connection
    current_config,   \* ConnectionManager._current_config
    live,             \* the Snowflake account
    faults,           \* the Introspector queries that raise in this account
    pc,               \* where the process is: load, planned, applying, ...
    declared,         \* number of declarations evaluated by the stack file
    first_registered, \* history: identifiers in order of first declaration
    stack_resources,  \* history: the registry as the declarations left it
    registry_before,  \* history: the registry when the last plan() was called
    current_state,    \* Runner.plan: current_state of the last call
    desired_state,    \* Runner.plan: desired_state of the last call
    plan,             \* Runner.plan: the statements of the last call
    plans,            \* number of plan() calls
    prev_plan_sql,    \* history: what the plan() call before the last returned
    replanned,        \* history: the last two plan() calls were consecutive
    apply_plan,       \* Runner.apply: its argument plan_sql
    executed,         \* Runner.apply: the statements executed, in order
    apply_i,          \* Runner.apply: index of the statement to execute next
    apply_start,      \* history: the account when apply() was called
    raised,           \* an exception left apply()
    applied,          \* apply() has been called
    r_pc,             \* rendering: what has been computed for r_self
    r_self,           \* rendering: the desired resource
    r_current,        \* rendering: the current resource it is compared with
    r_alter_sql,      \* rendering: r_self.get_alter_sql(r_current)
    r_plan_sql,       \* rendering: the plan of {r_self} against {r_current}
    r_create_sql,     \* rendering: r_self.get_create_sql(), once called
    r_drop_sql,       \* rendering: r_self.get_drop_sql(), once called
    reg_log,          \* registry: the resources passed to register() since clear()
    reg_got,          \* registry: what get_all() returned, if called since
    queries,          \* the queries the last plan() sent to the account
    cli_args,         \* command line: command, stack path and answer of the last run
    conn_calls,       \* ConnectionManager: number of calls made
    conn_last,        \* ConnectionManager: the method called last
    conn_raised,      \* ConnectionManager: what the last call raised, "" if nothing
    sessions_open,    \* the sessions open on the server
    pipes_to_process, \* pipes drop-recreate: the selected (name, database, schema)
    pipe_target,      \* pipes drop-recreate: target_database and target_schema
    pipe_i,           \* pipes drop-recreate: position of the loop in the list
    pipe_pc,          \* pipes drop-recreate: the step the loop is at
    pipe_ddl,         \* pipes drop-recreate: the ddl fetched for the pipe at hand
    pipe_log          \* pipes drop-recreate: the statements executed, in order

renderVars == << r_pc, r_self, r_current, r_alter_sql, r_plan_sql,
                r_create_sql, r_drop_sql >>

mainVars == << resources, connection, current_config, live, faults, pc, declared,
           first_registered, stack_resources, registry_before, current_state,
           desired_state, plan, plans, prev_plan_sql, replanned, apply_plan,
           executed, apply_i, apply_start, raised, applied, queries >>

regVars == << reg_log, reg_got >>

cliVars == << cli_args >>

mgrVars == << conn_calls, conn_last, conn_raised, sessions_open >>

pipeVars == << pipes_to_process, pipe_target, pipe_i, pipe_pc, pipe_ddl,
              pipe_log >>

extraVars == << mgrVars, pipeVars >>

\* what the actions of the process leave alone
sideVars == << renderVars, regVars, cliVars, extraVars >>

vars == << mainVars, renderVars, regVars, cliVars, extraVars >>

envVars == << live, faults >>
connVars == << connection, current_config >>
declVars == << declared, first_registered, stack_resources >>
planVars == << registry_before, current_state, desired_state, plan, plans,
               prev_plan_sql, replanned, queries >>
applyVars == << apply_plan, executed, apply_i, apply_start, raised, applied >>

\* no rendering is going on
RenderIdle ==
    /\ r_pc = "idle"
    /\ r_self = None
    /\ r_current = None
    /\ r_alter_sql = ""
    /\ r_plan_sql = <<>>
    /\ r_create_sql = None
    /\ r_drop_sql = None

\* no register() call is being followed
RegistryIdle ==
    /\ reg_log = <<>>
    /\ reg_got = None

\* no call of the ConnectionManager has been made
MgrIdle ==
    /\ conn_calls = 0
    /\ conn_last = ""
    /\ conn_raised = ""
    /\ sessions_open = 0

\* drop_recreate_pipe_command is not running
PipesIdle ==
    /\ pipes_to_process = <<>>
    /\ pipe_target = [database |-> None, schema |-> None]
    /\ pipe_i = 1
    /\ pipe_pc = "idle"
    /\ pipe_ddl = None
    /\ pipe_log = <<>>

ExtraIdle == MgrIdle /\ PipesIdle

\* a fresh process: class attributes as the class bodies set them
ProcessStart ==
    /\ cli_args = None
    /\ queries = <<>>
    /\ resources = <<>>
    /\ connection = None
    /\ current_config = None
    /\ pc = "load"
    /\ declared = 0
    /\ first_registered = <<>>
    /\ stack_resources = <<>>
    /\ registry_before = <<>>
    /\ current_state = <<>>
    /\ desired_state = <<>>
    /\ plan = <<>>
    /\ plans = 0
    /\ prev_plan_sql = <<>>
    /\ replanned = FALSE
    /\ apply_plan = <<>>
    /\ executed = <<>>
    /\ apply_i = 1
    /\ apply_start = live
    /\ raised = FALSE
    /\ applied = FALSE

Init ==
    /\ live \in Accounts
    /\ faults \in Faults
    /\ ProcessStart
    /\ RenderIdle
    /\ RegistryIdle
    /\ ExtraIdle

(***************************************************************************)
(* Actions.                                                                *)
(***************************************************************************)
\* ConnectionManager.get_connection(conn_config) on a fresh process, the
\* connect succeeding
GetConnection(conn_config) ==
    /\ pc = "load" /\ declared = 0
    /\ connection = None /\ current_config = None
    /\ current_config' = Some(conn_config)
    /\ connection' = Some(conn_config)
    /\ UNCHANGED sideVars
    /\ UNCHANGED << resources, envVars, pc, declVars, planVars, applyVars >>

\* the stack file constructs one resource: Resource.__init__ registers it
Declare(r) ==
    /\ pc = "load" /\ declared < MaxDecl
    /\ resources' = Resource_init(resources, r, TRUE)
    /\ declared' = declared + 1
    /\ first_registered' =
          IF Identifier(r) \in Range(first_registered) THEN first_registered
          ELSE Append(first_registered, Identifier(r))
    /\ stack_resources' = resources'
    /\ UNCHANGED sideVars
    /\ UNCHANGED << connVars, envVars, pc, planVars, applyVars >>

\* Runner.plan()
Plan ==
    /\ pc \in {"load", "planned", "applied"} /\ plans < MaxPlans
    /\ LET after == Introspector_fetch_all_registry(resources, connection,
                                                    faults, live)
           current == Introspector_fetch_all(connection, faults, live)
           desired == DesiredState(resources, after)
       IN  /\ registry_before' = resources
           /\ resources' = after
           /\ current_state' = current
           /\ desired_state' = desired
           /\ plan' = PlanEntries(desired, current)
    /\ queries' = Introspector_queries(connection, faults, live)
    /\ plans' = plans + 1
    /\ prev_plan_sql' = PlanSql(plan)
    /\ replanned' = (pc = "planned")
    /\ pc' = "planned"
    /\ UNCHANGED sideVars
    /\ UNCHANGED << connVars, envVars, declVars, applyVars >>

\* Runner.apply(plan_sql) is called with the plan just computed (the apply
\* command calls it once, after its plan() call)
ApplyBegin ==
    /\ pc = "planned" /\ ~applied
    /\ applied' = TRUE
    /\ pc' = "applying"
    /\ apply_plan' = plan
    /\ apply_i' = 1
    /\ executed' = <<>>
    /\ apply_start' = live
    /\ raised' = FALSE
    /\ UNCHANGED sideVars
    /\ UNCHANGED << resources, connVars, envVars, declVars, planVars >>

\* self.conn.execute(sql) returns for the next statement
ApplyExecute ==
    /\ pc = "applying" /\ apply_i <= Len(apply_plan)
    /\ HasConnection(connection)
    /\ ServerAccepts(live, apply_plan[apply_i])
    /\ executed' = Append(executed, apply_plan[apply_i].sql)
    /\ live' = ExecEffect(live, Val(connection), apply_plan[apply_i])
    /\ apply_i' = apply_i + 1
    /\ UNCHANGED sideVars
    /\ UNCHANGED << resources, connVars, faults, pc, declVars, planVars,
                    apply_plan, apply_start, raised, applied >>

\* self.conn.execute(sql) raises: no session (ValueError), or the server
\* or the network fails the statement
ApplyExecuteFails ==
    /\ pc = "applying" /\ apply_i <= Len(apply_plan)
    /\ pc' = AfterFailure(apply_i).pc
    /\ apply_i' = AfterFailure(apply_i).apply_i
    /\ raised' = TRUE
    /\ UNCHANGED sideVars
    /\ UNCHANGED << resources, connVars, envVars, declVars, planVars,
                    apply_plan, executed, apply_start, applied >>

\* the loop is over (or plan_sql was empty): apply() returns
ApplyReturn ==
    /\ pc = "applying" /\ apply_i > Len(apply_plan)
    /\ pc' = "applied"
    /\ UNCHANGED sideVars
    /\ UNCHANGED << resources, connVars, envVars, declVars, planVars,
                    applyVars >>

Next ==
    \/ \E c \in Configs : GetConnection(c)
    \/ \E r \in Declarations : Declare(r)
    \/ Plan
    \/ ApplyBegin
    \/ ApplyExecute
    \/ ApplyExecuteFails
    \/ ApplyReturn

Spec == Init /\ [][Next]_vars

(***************************************************************************)
(* Rendering on its own: one desired resource of any kind is compared      *)
(* with a current resource of the same kind, as get_alter_sql and the      *)
(* loops of Runner.plan do it.                                             *)
(***************************************************************************)
RenderResources ==
    Declarations \cup Range(LiveOthers) \cup
    { WarehouseFromRow(RowWH1), WarehouseFromRow(RowWH2),
      WarehouseDefaults("WH1", Some("SMALL")),
      Warehouse("WH1", None, None, None, None, None),
      Role("R1", None), Role("R9", Some("")),
      User("U9", Some("flakeuser"), TRUE, Some("R1"), Some("ops")),
      Database("DB", Some("main"), None),
      Schema("DB", "RAW", Some("landing"), Some(1), TRUE),
      Schema("DB", "S", None, None, TRUE),
      TableFromRow(RowT1), TableFromRow(RowRawT1),
      Table("DB", "S", "T1",
            <<Column("ID", "NUMBER", FALSE, Some("key")),
              Column("SCORE", "FLOAT", FALSE, None)>>, Some("scores")),
      Grant("SELECT", "TABLE", "DB.S.T2", "R1"),
      GrantNamed("G2", "USAGE", "DATABASE", "DB", "R1"),
      Grant("usage", "DATABASE", "DB", "R1"),
      \* quoted Snowflake names may hold a dot
      Table("A.B", "C", "T", <<Column("ID", "NUMBER", TRUE, None)>>, None),
      Table("A", "B.C", "T", <<Column("ID", "NUMBER", TRUE, None)>>, None),
      \* a table declared in lower case
      Table("db", "s", "t1", <<Column("ID", "NUMBER", TRUE, None)>>, None) }

RenderInit ==
    /\ live = [warehouses |-> <<>>, tables |-> <<>>, others |-> <<>>]
    /\ faults = NoFault
    /\ ProcessStart
    /\ r_pc = "init"
    /\ r_self \in RenderResources
    /\ r_current = None
    /\ r_alter_sql = ""
    /\ r_plan_sql = <<>>
    /\ r_create_sql = None
    /\ r_drop_sql = None
    /\ RegistryIdle
    /\ ExtraIdle

\* r_self.get_alter_sql(current_state) with a resource of the same class
RenderAlter(current) ==
    /\ r_pc = "init"
    /\ current.kind = r_self.kind
    /\ r_current' = current
    /\ r_alter_sql' = get_alter_sql(r_self, current)
    /\ r_pc' = "alter"
    /\ UNCHANGED << mainVars, regVars, cliVars, extraVars, r_self, r_plan_sql, r_create_sql,
                    r_drop_sql >>

\* the loops of Runner.plan with desired_state = [r_self] and
\* current_state = {r_current.identifier: r_current}
RenderPlan ==
    /\ r_pc = "alter"
    /\ r_plan_sql' = PlanSql(PlanEntries(<<r_self>>, <<r_current>>))
    /\ r_pc' = "plan"
    /\ UNCHANGED << mainVars, regVars, cliVars, extraVars, r_self, r_current, r_alter_sql,
                    r_create_sql, r_drop_sql >>

\* r_self.get_create_sql()
RenderCreate ==
    /\ r_self /= None /\ r_create_sql = None
    /\ r_create_sql' = Some(get_create_sql(r_self))
    /\ UNCHANGED << mainVars, regVars, cliVars, extraVars, r_pc, r_self, r_current, r_alter_sql,
                    r_plan_sql, r_drop_sql >>

\* r_self.get_drop_sql()
RenderDrop ==
    /\ r_self /= None /\ r_drop_sql = None
    /\ r_drop_sql' = Some(get_drop_sql(r_self))
    /\ UNCHANGED << mainVars, regVars, cliVars, extraVars, r_pc, r_self, r_current, r_alter_sql,
                    r_plan_sql, r_create_sql >>

RenderNext ==
    \/ \E c \in RenderResources : RenderAlter(c)
    \/ RenderPlan
    \/ RenderCreate
    \/ RenderDrop

SpecRender == RenderInit /\ [][RenderNext]_vars

(***************************************************************************)
(* The plan command of the command line: one action is one run of the      *)
(* command, several runs sharing the process (as under click's CliRunner). *)
(***************************************************************************)
RECURSIVE ExecAll(_, _, _)
\* the account after the statements of entries were executed in order
ExecAll(account, config, entries) ==
    IF Len(entries) = 0 THEN account
    ELSE ExecAll(ExecEffect(account, config, entries[1]), config, Tail(entries))

\* the stack files: the declarations they evaluate, in order
StackDeclarations ==
    { WarehouseDefaults("WH1", Some("x-small")),
      Role("R1", Some("Managed role")),
      Table("DB", "S", "T1",
            <<Column("ID", "NUMBER", TRUE, None),
              Column("SCORE", "FLOAT", TRUE, None)>>, None) }

StackFiles == UNION { [1..n -> StackDeclarations] : n \in 0..MaxStack }

\* the --stack argument: whether the path exists, its suffix, and the
\* declarations the file holds
StackPath(exists, suffix, declarations) ==
    [exists |-> exists, suffix |-> suffix, declarations |-> declarations]

StackPaths ==
    { StackPath(TRUE, ".py", stack) : stack \in StackFiles }
    \cup { StackPath(FALSE, ".py", <<>>),
           StackPath(TRUE, ".txt", << Role("R1", Some("Managed role")) >>) }

\* variant of the checks of load_stack: the suffix is not looked at
StackLoadsAnySuffix(path) == path.exists

\* load_stack(path) gets past its checks (no ClickException): the path
\* exists and its suffix is .py
StackLoads(path) == path.exists /\ path.suffix = ".py"

\* load_stack(stack): exec_module runs the declarations of the file
load_stack(resources_, stack) == InitAll(resources_, stack, TRUE)

\* load_stack raised ClickException: the command ends with a non-zero exit
\* code before anything else has run
StackError(command, path, confirm) ==
    /\ ~StackLoads(path)
    /\ cli_args' = Some([command |-> command, path |-> path, confirm |-> confirm])
    /\ pc' = "stack_error"
    /\ UNCHANGED << renderVars, regVars, extraVars >>
    /\ UNCHANGED << resources, connVars, envVars, declVars, planVars, applyVars >>

\* load_stack(path) followed by Runner().plan(), as both commands start:
\* neither clears the registry, neither passes a connection config
LoadAndPlan(path) ==
    /\ StackLoads(path)
    /\ LET stack == path.declarations
           loaded == load_stack(resources, stack)
           after == Introspector_fetch_all_registry(loaded, connection,
                                                    faults, live)
           current == Introspector_fetch_all(connection, faults, live)
           desired == DesiredState(loaded, after)
       IN  /\ registry_before' = loaded
           /\ resources' = after
           /\ current_state' = current
           /\ desired_state' = desired
           /\ plan' = PlanEntries(desired, current)
           /\ stack_resources' = load_stack(<<>>, stack)
           /\ first_registered' = Map(load_stack(<<>>, stack), Identifier)
           /\ declared' = Len(stack)
    /\ queries' = Introspector_queries(connection, faults, live)
    /\ plans' = plans + 1
    /\ prev_plan_sql' = PlanSql(plan)
    /\ replanned' = FALSE

\* the commands are run one after the other until an apply command has
\* got to its prompt
CliReady == pc \in {"load", "planned", "stack_error"} /\ plans < MaxPlans

\* snowmin plan --stack <path>
cli_plan(path) ==
    /\ CliReady
    /\ \/ StackError("plan", path, FALSE)
       \/ /\ LoadAndPlan(path)
          /\ cli_args' = Some([command |-> "plan", path |-> path,
                                confirm |-> FALSE])
          /\ pc' = "planned"
          /\ UNCHANGED << renderVars, regVars, extraVars >>
          /\ UNCHANGED << connVars, envVars, applyVars >>

\* variant of the gate of the apply command: the answer is not looked at
ApplyCalledUnconfirmed(plan_sql, confirm) == plan_sql /= <<>>

\* the apply command calls runner.apply(plan_sql): the plan is not empty
\* and click.confirm returned True
ApplyCalled(plan_sql, confirm) == plan_sql /= <<>> /\ confirm

\* Runner.apply executes the first n statements of entries, one after the
\* other, each accepted by the server as the statements before it left it
ExecutesPrefix(account, entries, n) ==
    n > 0 =>
        /\ HasConnection(connection)
        /\ \A i \in 1..n :
              ServerAccepts(ExecAll(account, Val(connection),
                                    SubSeq(entries, 1, i - 1)), entries[i])

\* snowmin apply --stack <path>, the user answering confirm to the prompt:
\* load_stack, Runner().plan(), and runner.apply(plan_sql) behind its gate;
\* apply runs to its end or to the first statement that raises
cli_apply(path, confirm) ==
    /\ CliReady
    /\ \/ StackError("apply", path, confirm)
       \/ /\ LoadAndPlan(path)
          /\ cli_args' = Some([command |-> "apply", path |-> path,
                                confirm |-> confirm])
          /\ apply_start' = live
          /\ IF ApplyCalled(PlanSql(plan'), confirm)
             THEN \E n \in 0..Len(plan') :
                    /\ ExecutesPrefix(live, plan', n)
                    /\ apply_i' = n + 1
                    /\ applied' = TRUE
                    /\ apply_plan' = plan'
                    /\ executed' = PlanSql(SubSeq(plan', 1, n))
                    /\ live' = IF n = 0 THEN live
                               ELSE ExecAll(live, Val(connection),
                                            SubSeq(plan', 1, n))
                    /\ raised' = (n < Len(plan'))
                    /\ pc' = IF n < Len(plan') THEN "apply_failed"
                             ELSE "applied"
             ELSE /\ apply_i' = 1
                  /\ applied' = FALSE
                  /\ apply_plan' = <<>>
                  /\ executed' = <<>>
                  /\ live' = live
                  /\ raised' = FALSE
                  /\ pc' = IF plan' = <<>> THEN "no_changes"
                           ELSE "apply_cancelled"
          /\ UNCHANGED << renderVars, regVars, extraVars >>
          /\ UNCHANGED << connVars, faults >>

CliNext ==
    \/ \E c \in Configs : GetConnection(c)
    \/ \E path \in StackPaths : cli_plan(path)
    \/ \E path \in StackPaths, confirm \in BOOLEAN : cli_apply(path, confirm)

SpecCli == Init /\ [][CliNext]_vars

(***************************************************************************)
(* The ResourceRegistry on its own: register, get_all and clear called in  *)
(* any order.                                                              *)
(***************************************************************************)
\* resources that share identifiers pairwise (warehouse.WH1, role.R1)
RegistryResources == Declarations \cup { Role("R1", None) }

RegistryInit ==
    /\ live = [warehouses |-> <<>>, tables |-> <<>>, others |-> <<>>]
    /\ faults = NoFault
    /\ ProcessStart
    /\ RenderIdle
    /\ RegistryIdle
    /\ ExtraIdle

\* ResourceRegistry.register(resource)
Register(resource) ==
    /\ Len(reg_log) < MaxRegs
    /\ resources' = ResourceRegistry_register(resources, resource)
    /\ reg_log' = Append(reg_log, resource)
    /\ reg_got' = None
    /\ UNCHANGED << renderVars, cliVars, extraVars >>
    /\ UNCHANGED << connVars, envVars, pc, declVars, planVars, applyVars >>

\* ResourceRegistry.get_all()
GetAll ==
    /\ reg_got = None
    /\ reg_got' = Some(ResourceRegistry_get_all(resources))
    /\ UNCHANGED << mainVars, renderVars, cliVars, extraVars, reg_log >>

\* ResourceRegistry.clear()
Clear ==
    /\ reg_log /= <<>>
    /\ resources' = <<>>
    /\ reg_log' = <<>>
    /\ reg_got' = None
    /\ UNCHANGED << renderVars, cliVars, extraVars >>
    /\ UNCHANGED << connVars, envVars, pc, declVars, planVars, applyVars >>

RegistryNext ==
    \/ \E resource \in RegistryResources : Register(resource)
    \/ GetAll
    \/ Clear

SpecRegistry == RegistryInit /\ [][RegistryNext]_vars


(***************************************************************************)
(* The ConnectionManager on its own: get_connection, execute, fetch_all    *)
(* and close called in any order.                                          *)
(***************************************************************************)
ConnConfigs ==
    { [account |-> "ACCT", database |-> "DB", schema |-> "S"],
      [account |-> "ACCT", database |-> "DB", schema |-> "RAW"] }

\* the conn_config argument: None (the default) or a dict
ConnConfigArgs == {None} \cup { Some(c) : c \in ConnConfigs }

\* the class attributes, the sessions open on the server, and what the
\* call raised
MgrState(connection_, current_config_, open, raised_) ==
    [connection |-> connection_, current_config |-> current_config_,
     sessions_open |-> open, raised |-> raised_]

\* ConnectionManager.close()
ConnectionManager_close(st) ==
    IF st.connection /= None
    THEN [st EXCEPT !.connection = None, !.current_config = None,
                    !.sessions_open = @ - 1]
    ELSE st

\* ConnectionManager.get_connection(conn_config); connects tells whether
\* get_private_key and snowflake.connector.connect return
ConnectionManager_get_connection(st, conn_config, connects) ==
    LET closed == IF conn_config /= None /\ conn_config /= st.current_config
                  THEN ConnectionManager_close(st) ELSE st
    IN  IF closed.connection = None
        THEN IF conn_config = None
             THEN [closed EXCEPT !.raised = "ValueError"]
             ELSE IF connects
                  THEN [closed EXCEPT !.current_config = conn_config,
                                      !.connection = conn_config,
                                      !.sessions_open = @ + 1,
                                      !.raised = ""]
                  ELSE [closed EXCEPT !.current_config = conn_config,
                                      !.raised = "RuntimeError"]
        ELSE [closed EXCEPT !.raised = ""]

\* ConnectionManager.execute / fetch_all: get_connection, then the query,
\* which raises or not
ConnectionManager_execute(st, conn_config, connects, query_ok) ==
    LET got == ConnectionManager_get_connection(st, conn_config, connects)
    IN  IF got.raised = "" /\ ~query_ok
        THEN [got EXCEPT !.raised = "ProgrammingError"]
        ELSE got

MgrNow == MgrState(connection, current_config, sessions_open, conn_raised)

\* a call has returned or raised, leaving st
MgrLeaves(st) ==
    /\ connection' = st.connection
    /\ current_config' = st.current_config
    /\ sessions_open' = st.sessions_open
    /\ conn_raised' = st.raised

MgrGetConnection(conn_config, connects) ==
    /\ conn_calls < MaxCalls
    /\ conn_calls' = conn_calls + 1
    /\ conn_last' = "get_connection"
    /\ MgrLeaves(ConnectionManager_get_connection(MgrNow, conn_config,
                                                  connects))
    /\ UNCHANGED << renderVars, regVars, cliVars, pipeVars >>
    /\ UNCHANGED << resources, envVars, pc, declVars, planVars, applyVars >>

MgrExecute(conn_config, connects, query_ok) ==
    /\ conn_calls < MaxCalls
    /\ conn_calls' = conn_calls + 1
    /\ conn_last' = "execute"
    /\ MgrLeaves(ConnectionManager_execute(MgrNow, conn_config, connects,
                                           query_ok))
    /\ UNCHANGED << renderVars, regVars, cliVars, pipeVars >>
    /\ UNCHANGED << resources, envVars, pc, declVars, planVars, applyVars >>

MgrFetchAll(conn_config, connects, query_ok) ==
    /\ conn_calls < MaxCalls
    /\ conn_calls' = conn_calls + 1
    /\ conn_last' = "fetch_all"
    /\ MgrLeaves(ConnectionManager_execute(MgrNow, conn_config, connects,
                                           query_ok))
    /\ UNCHANGED << renderVars, regVars, cliVars, pipeVars >>
    /\ UNCHANGED << resources, envVars, pc, declVars, planVars, applyVars >>

MgrClose ==
    /\ conn_calls < MaxCalls
    /\ conn_calls' = conn_calls + 1
    /\ conn_last' = "close"
    /\ MgrLeaves([ConnectionManager_close(MgrNow) EXCEPT !.raised = ""])
    /\ UNCHANGED << renderVars, regVars, cliVars, pipeVars >>
    /\ UNCHANGED << resources, envVars, pc, declVars, planVars, applyVars >>

ConnInit ==
    /\ live = [warehouses |-> <<>>, tables |-> <<>>, others |-> <<>>]
    /\ faults = NoFault
    /\ ProcessStart
    /\ RenderIdle
    /\ RegistryIdle
    /\ ExtraIdle

ConnNext ==
    \/ \E conn_config \in ConnConfigArgs, connects \in BOOLEAN :
          MgrGetConnection(conn_config, connects)
    \/ \E conn_config \in ConnConfigArgs, connects, query_ok \in BOOLEAN :
          MgrExecute(conn_config, connects, query_ok)
    \/ \E conn_config \in ConnConfigArgs, connects, query_ok \in BOOLEAN :
          MgrFetchAll(conn_config, connects, query_ok)
    \/ MgrClose

SpecConn == ConnInit /\ [][ConnNext]_vars

(***************************************************************************)
(* drop_recreate_pipe_command: the loop over the selected pipes, after     *)
(* the user confirmed.                                                     *)
(***************************************************************************)
\* a or b of Python, on Optional[str]
StrOr(a, b) == IF TruthyStr(a) THEN a ELSE b

\* one entry of pipes_to_process (the state of the pipe left out)
PipeInfo(p_name, p_database, p_schema) ==
    [name |-> p_name, database |-> p_database, schema |-> p_schema]

PipeInfos ==
    { PipeInfo("P1", Some("DB"), Some("S")),
      PipeInfo("P2", None, Some("RAW")),
      PipeInfo("P3", None, None) }

PipeLists == UNION { [1..n -> PipeInfos] : n \in 1..MaxPipes }

PipeTargets ==
    { [database |-> None, schema |-> None],
      [database |-> Some("DB"), schema |-> Some("S")] }

pipe_schema(p, target) == StrOr(p.schema, target.schema)
pipe_database(p, target) == StrOr(p.database, target.database)

\* USE SCHEMA is sent before the recreate statement
SetsContext(p, target) ==
    TruthyStr(pipe_database(p, target)) /\ TruthyStr(pipe_schema(p, target))

full_pipe_name(p, target) ==
    IF SetsContext(p, target)
    THEN Val(pipe_database(p, target)) \o "." \o Val(pipe_schema(p, target))
         \o "." \o p.name
    ELSE IF TruthyStr(pipe_schema(p, target))
         THEN Val(pipe_schema(p, target)) \o "." \o p.name
         ELSE p.name

\* what SELECT GET_DDL('pipe', ...) comes to: execute raises, fetchone()
\* returns None, the definition is empty, or a definition is returned
DdlResults == {"raises", "no_row", "empty", "ddl"}

\* the definition GET_DDL returns for a pipe
DdlOf(p) == "create or replace pipe " \o p.name \o " as copy into T1 from @STAGE"

\* one statement handed to ConnectionManager.execute
PipeStatement(i, step, sql, ok, result) ==
    [pipe |-> i, step |-> step, sql |-> sql, ok |-> ok, result |-> result]

\* variant of the except clause: the error is reported and the loop goes
\* on with the next pipe
PipeFailureContinues(i, n) ==
    [pc |-> IF i < n THEN "get_ddl" ELSE "done", i |-> i + 1]

\* the except clause raises ClickException: the loop is left
PipeFailure(i, n) == [pc |-> "aborted", i |-> i]

\* the body of the loop has ended for pipe i of n
PipeDone(i, n) == [pc |-> IF i < n THEN "get_ddl" ELSE "done", i |-> i + 1]

PipeAtHand == pipes_to_process[pipe_i]

PipeFrame ==
    /\ UNCHANGED << renderVars, regVars, cliVars, mgrVars >>
    /\ UNCHANGED << mainVars, pipes_to_process, pipe_target >>

\* 1. Get DDL
PipeGetDdl(result) ==
    /\ pipe_pc = "get_ddl"
    /\ pipe_log' = Append(pipe_log,
          PipeStatement(pipe_i, "get_ddl",
              "SELECT GET_DDL('pipe', '"
                  \o full_pipe_name(PipeAtHand, pipe_target) \o "')",
              result /= "raises", result))
    /\ IF result = "ddl"
       THEN /\ pipe_ddl' = Some(DdlOf(PipeAtHand))
            /\ pipe_pc' = "drop"
            /\ pipe_i' = pipe_i
       ELSE /\ pipe_ddl' = None
            /\ pipe_pc' = PipeFailure(pipe_i, Len(pipes_to_process)).pc
            /\ pipe_i' = PipeFailure(pipe_i, Len(pipes_to_process)).i
    /\ PipeFrame

\* 2. Drop Pipe
PipeDrop(ok) ==
    /\ pipe_pc = "drop"
    /\ pipe_log' = Append(pipe_log,
          PipeStatement(pipe_i, "drop",
              "DROP PIPE " \o full_pipe_name(PipeAtHand, pipe_target), ok, ""))
    /\ IF ok
       THEN /\ pipe_pc' = IF SetsContext(PipeAtHand, pipe_target)
                          THEN "use" ELSE "recreate"
            /\ pipe_i' = pipe_i
            /\ pipe_ddl' = pipe_ddl
       ELSE /\ pipe_pc' = PipeFailure(pipe_i, Len(pipes_to_process)).pc
            /\ pipe_i' = PipeFailure(pipe_i, Len(pipes_to_process)).i
            /\ pipe_ddl' = None
    /\ PipeFrame

\* 3. Recreate Pipe: the context is set first
PipeUseSchema(ok) ==
    /\ pipe_pc = "use"
    /\ pipe_log' = Append(pipe_log,
          PipeStatement(pipe_i, "use",
              "USE SCHEMA " \o Val(pipe_database(PipeAtHand, pipe_target))
                  \o "." \o Val(pipe_schema(PipeAtHand, pipe_target)),
              ok, ""))
    /\ IF ok
       THEN /\ pipe_pc' = "recreate"
            /\ pipe_i' = pipe_i
            /\ pipe_ddl' = pipe_ddl
       ELSE /\ pipe_pc' = PipeFailure(pipe_i, Len(pipes_to_process)).pc
            /\ pipe_i' = PipeFailure(pipe_i, Len(pipes_to_process)).i
            /\ pipe_ddl' = None
    /\ PipeFrame

\* 3. Recreate Pipe: the fetched definition is executed
PipeRecreate(ok) ==
    /\ pipe_pc = "recreate"
    /\ pipe_log' = Append(pipe_log,
          PipeStatement(pipe_i, "recreate", Val(pipe_ddl), ok, ""))
    /\ pipe_ddl' = None
    /\ IF ok
       THEN /\ pipe_pc' = PipeDone(pipe_i, Len(pipes_to_process)).pc
            /\ pipe_i' = PipeDone(pipe_i, Len(pipes_to_process)).i
       ELSE /\ pipe_pc' = PipeFailure(pipe_i, Len(pipes_to_process)).pc
            /\ pipe_i' = PipeFailure(pipe_i, Len(pipes_to_process)).i
    /\ PipeFrame

PipesInit ==
    /\ live = [warehouses |-> <<>>, tables |-> <<>>, others |-> <<>>]
    /\ faults = NoFault
    /\ ProcessStart
    /\ RenderIdle
    /\ RegistryIdle
    /\ MgrIdle
    /\ pipes_to_process \in PipeLists
    /\ pipe_target \in PipeTargets
    /\ pipe_i = 1
    /\ pipe_pc = "get_ddl"
    /\ pipe_ddl = None
    /\ pipe_log = <<>>

PipesNext ==
    \/ \E result \in DdlResults : PipeGetDdl(result)
    \/ \E ok \in BOOLEAN : PipeDrop(ok)
    \/ \E ok \in BOOLEAN : PipeUseSchema(ok)
    \/ \E ok \in BOOLEAN : PipeRecreate(ok)

SpecPipes == PipesInit /\ [][PipesNext]_vars

(***************************************************************************)
(* Properties of Runner.plan and Runner.apply.                             *)
(***************************************************************************)
Stmts(op) == {i \in 1..Len(plan) : plan[i].op = op}
StmtsOf(identifier) == {i \in 1..Len(plan) : plan[i].identifier = identifier}
CreateOrAlter(i) == plan[i].op \in {"create", "alter"}

\* position of an identifier in the order of first registration
Pos(identifier) ==
    CHOOSE k \in 1..Len(first_registered) : first_registered[k] = identifier

\* C1: introspection never changes the desired state: after plan() (hence
\* after fetch_all()) the registry holds exactly the mapping it held before
\* the call; no resource built from a live row is registered.
C1_IntrospectionLeavesRegistry == plans > 0 => resources = registry_before

\* C2: classification partition: every identifier of desired or current is
\* handled by exactly one branch (create: desired only; update: both, its
\* statement possibly absent; destroy: current only), contributes at most
\* one statement, and every statement belongs to such an identifier.
C2_ClassificationPartition ==
    LET D == Identifiers(desired_state)
        C == Identifiers(current_state)
    IN  /\ \A i \in 1..Len(plan) : plan[i].identifier \in D \cup C
        /\ \A id \in D \cup C :
              /\ Cardinality(StmtsOf(id)) <= 1
              /\ \A i \in StmtsOf(id) :
                    plan[i].op = IF id \notin C THEN "create"
                                 ELSE IF id \in D THEN "alter" ELSE "drop"
              /\ (id \notin C \/ id \notin D) => Cardinality(StmtsOf(id)) = 1

\* a plan in which all three branches appended a statement, and an
\* identifier of both sets got none
C2_Witness ==
    /\ Stmts("create") /= {} /\ Stmts("alter") /= {} /\ Stmts("drop") /= {}
    /\ \E id \in Identifiers(desired_state) \cap Identifiers(current_state) :
          StmtsOf(id) = {}

\* C3: destroy classification: when the declarations register no resource
\* with the identifier of a warehouse that SHOW WAREHOUSES lists, the plan
\* contains DROP WAREHOUSE IF EXISTS <name> for it (Scenario C: no
\* declarations and the one live warehouse WH2 give exactly that statement).
C3_UndeclaredWarehouseDropped ==
    (pc = "planned" /\ QuerySucceeds(connection, faults.show_warehouses)) =>
        \A i \in 1..Len(live.warehouses) :
            Identifier(WarehouseFromRow(live.warehouses[i]))
                \notin Identifiers(stack_resources)
            => ("DROP WAREHOUSE IF EXISTS " \o live.warehouses[i].name)
                  \in Range(PlanSql(plan))

\* C4: authority boundary: every destroy statement of a plan belongs to a
\* warehouse or a table; no object of a kind fetch_all() does not enumerate
\* (role, user, database, schema, grant) is proposed for destruction,
\* whatever exists live and is absent from desired.
C4_AuthorityBoundary ==
    /\ \A i \in Stmts("drop") : plan[i].res.kind \in {"warehouse", "table"}
    /\ pc = "planned" =>
          \A k \in 1..Len(live.others) :
              /\ StmtsOf(Identifier(live.others[k])) \cap Stmts("drop") = {}
              /\ get_drop_sql(live.others[k]) \notin Range(PlanSql(plan))

\* a plan with a destroy statement, computed while the account holds
\* objects of the other kinds that are not declared
C4_Witness ==
    /\ pc = "planned" /\ Stmts("drop") /= {}
    /\ \E k \in 1..Len(live.others) :
          /\ live.others[k].kind = "role"
          /\ Identifier(live.others[k]) \notin Identifiers(desired_state)
    /\ \E k \in 1..Len(live.others) : live.others[k].kind = "grant"

\* C5: create classification: every resource of the desired state whose
\* identifier is not in the snapshot contributes exactly its
\* get_create_sql() statement, once; no resource whose identifier is in
\* the snapshot contributes a create statement.  (Stated for the desired
\* state plan() reads and for the resources the declarations registered.)
C5_CreateClassification ==
    /\ plans > 0 =>
          \A k \in 1..Len(stack_resources) :
              Identifier(stack_resources[k]) \notin Identifiers(current_state) =>
                  \E i \in StmtsOf(Identifier(stack_resources[k])) :
                      /\ plan[i].op = "create"
                      /\ plan[i].sql = get_create_sql(stack_resources[k])
    /\ \A k \in 1..Len(desired_state) :
          Identifier(desired_state[k]) \notin Identifiers(current_state) =>
              /\ Cardinality(StmtsOf(Identifier(desired_state[k]))) = 1
              /\ \A i \in StmtsOf(Identifier(desired_state[k])) :
                    /\ plan[i].op = "create"
                    /\ plan[i].sql = get_create_sql(desired_state[k])
    /\ \A i \in Stmts("create") :
          plan[i].identifier \notin Identifiers(current_state)

\* a plan with two create statements while another desired resource is in
\* the snapshot
C5_Witness ==
    /\ Cardinality(Stmts("create")) >= 2
    /\ Identifiers(desired_state) \cap Identifiers(current_state) /= {}

\* C6: no-op on equality: for every kind, when the current resource has
\* field values identical to the desired one, get_alter_sql(current)
\* returns the empty string and Runner.plan appends no statement for it.
C6_NoOpOnEquality ==
    (r_pc \in {"alter", "plan"} /\ r_current = r_self) =>
        /\ r_alter_sql = ""
        /\ r_pc = "plan" => r_plan_sql = <<>>

\* an equal pair has been compared and planned (a warehouse with every
\* field set is among them)
C6_Witness ==
    /\ r_pc = "plan" /\ r_current = r_self
    /\ r_self.kind = "warehouse" /\ r_self.comment /= None
    /\ r_self.auto_suspend /= None


\* C7: phase ordering: in every plan every create and alter statement
\* comes before every destroy statement.
C7_PhaseOrdering ==
    \A i, j \in 1..Len(plan) :
        (CreateOrAlter(i) /\ plan[j].op = "drop") => i < j

C7_Witness ==
    /\ Stmts("create") /= {} /\ Stmts("alter") /= {}
    /\ Cardinality(Stmts("drop")) >= 2

\* C8: create/alter statements appear in the order in which the
\* declarations first registered their identifiers.
C8_RegistrationOrder ==
    \A i, j \in 1..Len(plan) :
        ( /\ CreateOrAlter(i) /\ CreateOrAlter(j)
          /\ plan[i].identifier \in Range(first_registered)
          /\ plan[j].identifier \in Range(first_registered)
          /\ Pos(plan[i].identifier) < Pos(plan[j].identifier) )
        => i < j

\* the first declared identifier was declared again after another one, and
\* both contribute a statement
C8_Witness ==
    /\ declared > Len(first_registered)
    /\ Len(first_registered) >= 2
    /\ Len(stack_resources) >= 2
    /\ stack_resources[1].name = "wh1"
    /\ first_registered[1] = "warehouse.WH1"
    /\ \E i, j \in 1..Len(plan) :
          /\ i < j /\ CreateOrAlter(i) /\ CreateOrAlter(j)
          /\ plan[i].identifier = first_registered[1]
          /\ plan[j].identifier = first_registered[2]

\* C9: idempotence of planning: with the declarations and the live account
\* fixed, two consecutive plan() calls return identical statement lists,
\* destroy statements in the same order.
C9_PlanIdempotent == replanned => PlanSql(plan) = prev_plan_sql

\* the second of two consecutive calls, with several destroy statements and
\* the registry changed by the introspection
C9_Witness ==
    /\ replanned /\ Cardinality(Stmts("drop")) >= 2 /\ Stmts("create") /= {}
    /\ resources /= stack_resources

\* C10: executor sequencing: apply() executes the statements one at a time
\* in list order; when statement k fails, statements 1..k-1 have been
\* executed and stay applied, none after k is executed and the failure
\* propagates; when none fails every statement is executed exactly once.
C10_ExecutorSequencing ==
    /\ Len(executed) <= Len(apply_plan)
    /\ executed = SubSeq(PlanSql(apply_plan), 1, Len(executed))
    /\ pc \in {"applying", "apply_failed"} => Len(executed) = apply_i - 1
    /\ raised <=> pc = "apply_failed"
    /\ pc = "applied" => executed = PlanSql(apply_plan)
    /\ (applied /\ connection /= None) =>
          live = ExecAll(apply_start, Val(connection),
                         SubSeq(apply_plan, 1, Len(executed)))
    /\ (applied /\ connection = None) => (live = apply_start /\ executed = <<>>)

\* statement k failed with statements before and after it
C10_Witness ==
    /\ pc = "apply_failed" /\ raised
    /\ 1 < apply_i /\ apply_i < Len(apply_plan)
    /\ live /= apply_start

\* C11: a connection failure is fatal: a plan or apply run that has no
\* session to the live system (none could be established, or no connection
\* config was supplied) is aborted and produces no plan; it never goes on
\* with an empty snapshot of the current state.
C11_ConnectionFailureFatal == pc = "planned" => HasConnection(connection)

(***************************************************************************)
(* Properties of the Introspector.                                         *)
(***************************************************************************)
\* the resources of one kind in a snapshot, in its order
OfKind(d, kind) == SelectSeq(d, LAMBDA r : r.kind = kind)

\* the rows of SHOW TABLES IN ACCOUNT whose DESC TABLE does not raise
Described == {i \in 1..Len(live.tables) :
                 full_name(live.tables[i]) \notin faults.desc}

\* position of the table of row i in the snapshot
SnapshotPos(i) ==
    CHOOSE k \in 1..Len(current_state) :
        current_state[k] = TableFromRow(live.tables[i])

\* C12: listing-failure isolation: when the top-level listing query of one
\* kind (SHOW WAREHOUSES or SHOW TABLES IN ACCOUNT) fails, fetch_all() still
\* returns, that kind contributes no entry and every object of the other
\* kind is in the returned snapshot.
C12_ListingFailureIsolation ==
    (pc = "planned" /\ HasConnection(connection)) =>
        /\ (faults.show_warehouses /\ ~faults.show_tables) =>
              /\ OfKind(current_state, "warehouse") = <<>>
              /\ \A i \in Described :
                    TableFromRow(live.tables[i]) \in Range(current_state)
        /\ (faults.show_tables /\ ~faults.show_warehouses) =>
              /\ OfKind(current_state, "table") = <<>>
              /\ \A i \in 1..Len(live.warehouses) :
                    WarehouseFromRow(live.warehouses[i]) \in Range(current_state)

\* SHOW WAREHOUSES failed in an account with warehouses and tables, and
\* plan() has its snapshot
C12_Witness ==
    /\ pc = "planned" /\ HasConnection(connection)
    /\ faults.show_warehouses /\ ~faults.show_tables
    /\ Len(live.warehouses) >= 2
    /\ Len(OfKind(current_state, "table")) >= 3

\* C13: detail-failure isolation: when DESC TABLE fails for one listed
\* table, exactly that table is missing from the result of fetch_tables();
\* every other listed table is present, in listing order, those listed
\* before the failing one included.
C13_DetailFailureIsolation ==
    (pc = "planned" /\ QuerySucceeds(connection, faults.show_tables)) =>
        /\ \A i \in 1..Len(live.tables) :
              TableFromRow(live.tables[i]) \in Range(current_state)
                  <=> i \in Described
        /\ Len(OfKind(current_state, "table")) = Cardinality(Described)
        /\ \A i, j \in Described : i < j => SnapshotPos(i) < SnapshotPos(j)

\* DESC TABLE failed for the second of three listed tables
C13_Witness ==
    /\ pc = "planned" /\ QuerySucceeds(connection, faults.show_tables)
    /\ Len(live.tables) >= 3
    /\ Described = {1, 3}
    /\ Len(OfKind(current_state, "table")) = 2

(***************************************************************************)
(* Properties of the ResourceRegistry.                                     *)
(***************************************************************************)
\* the register() calls that passed a resource with this identifier
RegsOf(identifier) ==
    {k \in 1..Len(reg_log) : Identifier(reg_log[k]) = identifier}

FirstReg(identifier) ==
    CHOOSE k \in RegsOf(identifier) : \A l \in RegsOf(identifier) : k <= l

LastReg(identifier) ==
    CHOOSE k \in RegsOf(identifier) : \A l \in RegsOf(identifier) : l <= k

LoggedIdentifiers == {Identifier(reg_log[k]) : k \in 1..Len(reg_log)}

\* C14: registry overwrite: after any sequence of register() calls the
\* registry holds at most one resource per identifier, exactly the
\* identifiers that were registered, and for each the resource registered
\* last with it, unchanged (no merge with the one it replaces); no call
\* fails.
C14_RegistryOverwrite ==
    /\ \A i, j \in 1..Len(resources) :
          Identifier(resources[i]) = Identifier(resources[j]) => i = j
    /\ Identifiers(resources) = LoggedIdentifiers
    /\ \A i \in 1..Len(resources) :
          resources[i] = reg_log[LastReg(Identifier(resources[i]))]

\* an identifier was registered, then another, then the first again with
\* other field values
C14_Witness ==
    /\ Len(reg_log) = 3
    /\ Identifier(reg_log[1]) = Identifier(reg_log[3])
    /\ Identifier(reg_log[1]) /= Identifier(reg_log[2])
    /\ reg_log[1] /= reg_log[3]
    /\ Len(resources) = 2

\* C15: registry order stability: get_all() returns the resources in the
\* order in which their identifiers were first registered; registering an
\* identifier again replaces the value at its position and does not move
\* it to the end.
C15_RegistryOrderStability ==
    reg_got /= None =>
        LET got == Val(reg_got)
        IN  /\ Len(got) = Cardinality(LoggedIdentifiers)
            /\ \A i \in 1..Len(got) :
                  got[i] = reg_log[LastReg(Identifier(got[i]))]
            /\ \A i, j \in 1..Len(got) :
                  i < j => FirstReg(Identifier(got[i]))
                             < FirstReg(Identifier(got[j]))

\* get_all() after the first identifier was registered again, last
C15_Witness ==
    /\ reg_got /= None /\ Len(reg_log) = 3
    /\ Identifier(reg_log[1]) = Identifier(reg_log[3])
    /\ Identifier(reg_log[1]) /= Identifier(reg_log[2])
    /\ reg_log[1] /= reg_log[3]
    /\ Val(reg_got) = << reg_log[3], reg_log[2] >>

\* C16: registry lifecycle: the registry is cleared at the start of every
\* plan/apply run, before the declarations are evaluated: when the planner
\* runs, the registry holds exactly the resources the stack file of this
\* run declared, and nothing of an earlier run in the same process.
C16_RegistryLifecycle == pc = "planned" => registry_before = stack_resources

(***************************************************************************)
(* Properties of the resource model.                                       *)
(***************************************************************************)
\* the parent-scope qualifiers of a resource, upper-cased
Qualifiers(r) ==
    CASE r.kind = "schema" -> << Upper(r.database) >>
      [] r.kind = "table" -> << Upper(r.database), Upper(r.schema_name) >>
      [] OTHER -> << >>

\* the same kind, qualifiers and name, compared after upper-casing
SameObject(a, b) ==
    /\ a.kind = b.kind
    /\ Qualifiers(a) = Qualifiers(b)
    /\ Upper(a.name) = Upper(b.name)

\* C17: identifier injectivity: two resources (grants aside) have the
\* same identifier if and only if they have the same kind, the same
\* parent-scope qualifiers and the same name, each compared after
\* upper-casing; tables with different (database, schema, name) never
\* share an identifier, also when a component holds a dot.
C17_IdentifierInjective ==
    (r_pc \in {"alter", "plan"} /\ r_self.kind /= "grant") =>
        (Identifier(r_self) = Identifier(r_current)
            <=> SameObject(r_self, r_current))

\* the fields of a grant that its statements name, upper-cased
GrantTuple(g) ==
    << Upper(g.privilege), Upper(g.on_type), Upper(g.on_name), Upper(g.to_role) >>

\* a desired and a current grant have been compared and planned
GrantsPlanned ==
    /\ r_pc = "plan" /\ r_self.kind = "grant" /\ r_current.kind = "grant"

OptionalFields ==
    { "warehouse_size", "auto_suspend", "auto_resume", "scaling_policy",
      "comment", "data_retention_time_in_days", "login_name", "display_name",
      "email", "default_role", "default_warehouse" }

\* self with every unset optional field taken from current: what self
\* asks for when an unset field means "don't care"
DontCare(self, current) ==
    [f \in DOMAIN self |->
        IF f \in OptionalFields /\ self[f] = None THEN current[f] ELSE self[f]]

\* C19: alter treats an unset desired field as "don't care": for every
\* kind and optional field, when the desired field is unset (None) and the
\* current one has a value, get_alter_sql(current) has no clause for it;
\* the statement is the one made of the clauses for the fields that are
\* set in desired and differ from current.
C19_UnsetFieldIsDontCare ==
    r_pc \in {"alter", "plan"} =>
        r_alter_sql = get_alter_sql(DontCare(r_self, r_current), r_current)

\* the fields Warehouse.get_alter_sql compares, in the order of its clauses
WarehouseFields ==
    << "warehouse_size", "auto_suspend", "auto_resume", "scaling_policy",
       "comment" >>

\* the clause that sets field f to the value w has for it
WarehouseClause(w, f) ==
    CASE f = "warehouse_size" -> "WAREHOUSE_SIZE = '" \o StrOfStr(w[f]) \o "'"
      [] f = "auto_suspend" -> "AUTO_SUSPEND = " \o StrOfInt(w[f])
      [] f = "auto_resume" -> "AUTO_RESUME = " \o UpperStrOfBool(w[f])
      [] f = "scaling_policy" -> "SCALING_POLICY = '" \o StrOfStr(w[f]) \o "'"
      [] f = "comment" -> "COMMENT = '" \o StrOfStr(w[f]) \o "'"

\* the fields whose values differ between r_self and r_current
Differing == SelectSeq(WarehouseFields, LAMBDA f : r_self[f] /= r_current[f])

\* ALTER WAREHOUSE <name> SET and one clause per differing field
WarehouseAlterOfDiffering ==
    "ALTER WAREHOUSE " \o r_self.name \o " SET "
        \o Join([i \in 1..Len(Differing) |->
                    WarehouseClause(r_self, Differing[i])], ", ")

\* a desired and a current warehouse of the same name have been compared
WarehousesCompared ==
    /\ r_pc \in {"alter", "plan"}
    /\ r_self.kind = "warehouse" /\ r_current.kind = "warehouse"
    /\ Identifier(r_self) = Identifier(r_current)

\* the desired value of every differing field is set
DifferingAreSet ==
    \A i \in 1..Len(Differing) :
        IF Differing[i] = "warehouse_size" THEN TruthyStr(r_self.warehouse_size)
        ELSE r_self[Differing[i]] /= None

WarehouseFieldSet(w, f) ==
    IF f \in {"warehouse_size", "scaling_policy", "comment"} THEN TruthyStr(w[f])
    ELSE w[f] /= None

\* C21: warehouse create: get_create_sql returns CREATE WAREHOUSE <name>
\* followed by exactly one clause for each set field and none for an unset
\* one, in the order WAREHOUSE_SIZE, AUTO_SUSPEND, AUTO_RESUME,
\* SCALING_POLICY, COMMENT, booleans rendered TRUE/FALSE; a warehouse
\* declared with name WH1 and size X-SMALL only (Scenario A) gets the
\* defaults AUTO_SUSPEND = 600, AUTO_RESUME = TRUE, SCALING_POLICY =
\* 'STANDARD' and no COMMENT clause.
C21_WarehouseCreate ==
    (r_create_sql /= None /\ r_self.kind = "warehouse") =>
        LET set == SelectSeq(WarehouseFields,
                             LAMBDA f : WarehouseFieldSet(r_self, f))
        IN  /\ Val(r_create_sql) =
                  Join(<< "CREATE WAREHOUSE " \o r_self.name >>
                       \o [i \in 1..Len(set) |-> WarehouseClause(r_self, set[i])],
                       " ")
            /\ r_self = WarehouseDefaults("WH1", Some("X-SMALL")) =>
                  Val(r_create_sql) =
                     "CREATE WAREHOUSE WH1 WAREHOUSE_SIZE = 'X-SMALL' "
                        \o "AUTO_SUSPEND = 600 AUTO_RESUME = TRUE "
                        \o "SCALING_POLICY = 'STANDARD'"

\* Scenario A has been rendered
C21_Witness ==
    /\ r_create_sql /= None
    /\ r_self = WarehouseDefaults("WH1", Some("x-small"))
    /\ Val(r_create_sql) =
          "CREATE WAREHOUSE WH1 WAREHOUSE_SIZE = 'X-SMALL' AUTO_SUSPEND = 600 "
             \o "AUTO_RESUME = TRUE SCALING_POLICY = 'STANDARD'"

\* the desired columns whose name no current column has
MissingColumns ==
    SelectSeq(r_self.columns,
              LAMBDA col : \A i \in 1..Len(r_current.columns) :
                              r_current.columns[i].name /= col.name)

\* a desired and a current table have been compared
TablesCompared ==
    /\ r_pc \in {"alter", "plan"}
    /\ r_self.kind = "table" /\ r_current.kind = "table"

\* C22: table alter is add-only: Table.get_alter_sql(current) is ALTER
\* TABLE <db>.<schema>.<name> with exactly one ADD COLUMN clause for each
\* desired column whose name is not among current's column names, in
\* desired column order, and nothing else: a column of current only, or
\* one of both that differs in type, nullability or comment, has no
\* clause; with no desired column missing the result is empty.
C22_TableAlterAddOnly ==
    TablesCompared =>
        r_alter_sql =
            IF MissingColumns = <<>> THEN ""
            ELSE "ALTER TABLE " \o r_self.database \o "." \o r_self.schema_name
                 \o "." \o r_self.name \o " "
                 \o Join([i \in 1..Len(MissingColumns) |->
                            "ADD COLUMN " \o MissingColumns[i].name \o " "
                              \o MissingColumns[i].type
                              \o (IF MissingColumns[i].nullable THEN ""
                                  ELSE " NOT NULL")], ", ")

\* Scenario D: SCORE is missing, and ID differs in type and nullability
C22_Witness ==
    /\ TablesCompared
    /\ r_current = TableFromRow(RowT1)
    /\ r_self.columns[1].name = "ID" /\ r_self.columns[1].nullable
    /\ r_self.columns[1] /= r_current.columns[1]
    /\ r_alter_sql = "ALTER TABLE DB.S.T1 ADD COLUMN SCORE FLOAT"

\* C23: case-insensitive matching: a desired resource and a live object of
\* the same kind whose names and qualifiers differ in letter case only
\* have the same identifier; the planner classifies it as update and
\* plans neither a create nor a destroy for it.
C23_CaseInsensitiveMatching ==
    (r_pc = "plan" /\ r_self.kind /= "grant" /\ SameObject(r_self, r_current)) =>
        /\ Identifier(r_self) = Identifier(r_current)
        /\ r_plan_sql = IF r_alter_sql = "" THEN << >> ELSE << r_alter_sql >>
        /\ get_create_sql(r_self) \notin Range(r_plan_sql)
        /\ get_drop_sql(r_current) \notin Range(r_plan_sql)

\* a warehouse declared as wh1 was planned against the live WH1, and an
\* alter came out
C23_Witness ==
    /\ r_pc = "plan"
    /\ r_self.name = "wh1" /\ r_current = WarehouseFromRow(RowWH1)
    /\ Len(r_plan_sql) = 1

(***************************************************************************)
(* Properties of the plan and apply commands.                              *)
(***************************************************************************)
\* the last command run was `command`, and its stack loaded
LastCommand(command) ==
    /\ cli_args /= None
    /\ Val(cli_args).command = command
    /\ Val(cli_args).path.exists
    /\ Val(cli_args).path.suffix = ".py"

IsPrefix(s, t) == Len(s) <= Len(t) /\ s = SubSeq(t, 1, Len(s))

\* C24: apply gating in the apply command: Runner.apply is called only
\* after a non-empty plan was computed and the user confirmed; when the user
\* declines or the plan is empty no statement is executed and the live
\* system is as it was; when the user confirms, Runner.apply is called with
\* exactly the statement list plan() returned and executes its statements
\* in order.
C24_ApplyGating ==
    LastCommand("apply") =>
        LET confirmed == plan /= <<>> /\ Val(cli_args).confirm
        IN  /\ applied = confirmed
            /\ ~confirmed =>
                  /\ executed = <<>>
                  /\ live = apply_start
                  /\ pc = (IF plan = <<>> THEN "no_changes"
                           ELSE "apply_cancelled")
            /\ confirmed =>
                  /\ apply_plan = plan
                  /\ IsPrefix(executed, PlanSql(plan))
                  /\ pc \in {"applied", "apply_failed"}
                  /\ pc = "applied" <=> executed = PlanSql(plan)

\* the user confirmed a non-empty plan and all of it was executed
C24_Witness ==
    /\ LastCommand("apply")
    /\ Val(cli_args).confirm
    /\ pc = "applied"
    /\ Len(executed) > 1

\* the path does not exist, or is not a .py file
PathRejected(path) == ~path.exists \/ path.suffix /= ".py"

\* C25: stack loading failure stops the run before any planning: when the
\* stack path does not exist or is not a .py file, the plan and apply
\* commands end in error without running the declarations of the file,
\* fetching current state, computing a plan or executing any statement.
C25_StackLoadingFailure ==
    [][(cli_args' /= cli_args /\ PathRejected(Val(cli_args').path)) =>
          /\ pc' = "stack_error"
          /\ UNCHANGED << resources, live, connection, current_state,
                          desired_state, plan, plans, executed, applied,
                          apply_plan >>]_vars

\* a file that is not a .py file was given after an earlier run had planned
C25_Witness ==
    /\ pc = "stack_error"
    /\ cli_args /= None
    /\ Val(cli_args).path.exists
    /\ Val(cli_args).path.suffix = ".txt"
    /\ plans > 0 /\ plan /= <<>>

(***************************************************************************)
(* Properties of get_drop_sql.                                             *)
(***************************************************************************)
\* the name under which get_create_sql creates the object
CreatedName(r) ==
    CASE r.kind = "table" -> r.database \o "." \o r.schema_name \o "." \o r.name
      [] r.kind = "schema" -> r.database \o "." \o r.name
      [] OTHER -> r.name

\* C26: drop and create name the same object: for every resource kind the
\* object named in get_drop_sql() is the fully qualified object that
\* get_create_sql() creates; a Table or Schema is dropped by its
\* database-qualified name.
C26_DropNamesCreatedObject ==
    (r_self /= None /\ r_drop_sql /= None /\ r_self.kind /= "grant") =>
        Val(r_drop_sql) =
            "DROP " \o Upper(r_self.kind) \o " IF EXISTS " \o CreatedName(r_self)

(***************************************************************************)
(* Properties of plan() after apply().                                     *)
(***************************************************************************)
\* C27: convergence: if apply() executed every statement of the plan
\* successfully and the live system reflects them, the next plan() for the
\* same declarations returns an empty list, for every declared kind.
C27_Convergence ==
    (/\ pc = "planned" /\ applied /\ ~raised
     /\ executed = PlanSql(apply_plan)
     /\ connection /= None /\ faults = NoFault) => plan = <<>>

(***************************************************************************)
(* Properties of the queries of plan().                                    *)
(***************************************************************************)
\* the tables of the accounts of the model
AccountTables == UNION { Range(a.tables) : a \in Accounts }

\* a listing or describe query
ListingQuery(q) ==
    \/ q \in {"SHOW WAREHOUSES", "SHOW TABLES IN ACCOUNT"}
    \/ \E row \in AccountTables :
          q = "DESC TABLE " \o row.database_name \o "." \o row.schema_name
                  \o "." \o row.name

\* C28: planning is read-only: plan() sends only listing and describe
\* queries (SHOW WAREHOUSES, SHOW TABLES IN ACCOUNT, DESC TABLE) to the
\* live system, executes no statement, and leaves the live system as it
\* was.
C28_PlanningReadOnly ==
    [][plans' /= plans =>
          /\ live' = live
          /\ executed' = executed
          /\ \A i \in 1..Len(queries') : ListingQuery(queries'[i])]_vars

\* a plan() that described tables of the account and proposes changes
C28_Witness ==
    /\ plans > 0
    /\ Len(queries) > 3
    /\ plan /= <<>>
    /\ live.tables /= <<>>

(***************************************************************************)
(* Properties of the ConnectionManager.                                    *)
(***************************************************************************)
\* C29: ConnectionManager session invariant: after any sequence of
\* get_connection (succeeding or failing), execute, fetch_all and close
\* calls, _connection is None exactly when _current_config is None, and at
\* most one connection is open at a time (the one _connection holds).
C29_SessionInvariant ==
    /\ (connection = None) <=> (current_config = None)
    /\ sessions_open <= 1
    /\ (sessions_open = 1) <=> (connection /= None)

(***************************************************************************)
(* Properties of drop_recreate_pipe_command.                               *)
(***************************************************************************)
\* the statement raised, or GET_DDL gave no definition
StepFailed(e) == ~e.ok \/ (e.step = "get_ddl" /\ e.result /= "ddl")

\* C30: pipe drop-recreate is fail-fast and never drops without DDL: for
\* each selected pipe DROP PIPE is executed only after GET_DDL returned a
\* non-empty definition for that pipe, the recreate statement only after
\* its DROP succeeded, and after the first pipe for which a step fails no
\* statement is executed for any later pipe of the list.
C30_PipeFailFast ==
    \A k \in 1..Len(pipe_log) :
        LET e == pipe_log[k]
        IN  /\ e.step = "drop" =>
                  \E j \in 1..(k - 1) :
                      /\ pipe_log[j].pipe = e.pipe
                      /\ pipe_log[j].step = "get_ddl"
                      /\ pipe_log[j].ok
                      /\ pipe_log[j].result = "ddl"
            /\ e.step = "recreate" =>
                  \E j \in 1..(k - 1) :
                      /\ pipe_log[j].pipe = e.pipe
                      /\ pipe_log[j].step = "drop"
                      /\ pipe_log[j].ok
            /\ \A j \in 1..(k - 1) :
                  StepFailed(pipe_log[j]) => e.pipe <= pipe_log[j].pipe

\* the first of two pipes was dropped and its recreation failed: the loop
\* has ended with the second pipe untouched
C30_Witness ==
    /\ Len(pipes_to_process) = 2
    /\ pipe_pc = "aborted"
    /\ pipe_log /= <<>>
    /\ pipe_log[Len(pipe_log)].pipe = 1
    /\ pipe_log[Len(pipe_log)].step = "recreate"
    /\ ~pipe_log[Len(pipe_log)].ok

====
